---- MODULE Spec2Model ----
(***************************************************************************)
(* Model of the PubMed fetch-parse-classify pipeline of                    *)
(* src/pubmed_fetcher/pubmed_api.py: the affiliation classifier            *)
(* (_is_industry_affiliation), the record extractor (_parse_pubmed_xml)    *)
(* and the paginated fetcher (fetch_papers, search_papers_batch).          *)
(*                                                                         *)
(* Texts are TLA+ strings; a character is a string of length one.          *)
(***************************************************************************)
EXTENDS Integers, Sequences, FiniteSets, TLC

VARIABLES
    affiliation_text,   \* classifier: the affiliation text under classification
    verdict,            \* classifier: "none" before the call, else "Industry"/"Academic"
    pc,                 \* fetcher: "idle", the request in flight, "sleep", or "done"
    entry,              \* fetcher: the function the caller called
    query,              \* the query argument
    total_results,      \* search_papers_batch argument
    batch_size,         \* search_papers_batch argument
    start,              \* search_papers_batch: the loop variable
    all_papers,         \* search_papers_batch: the accumulated records
    max_results,        \* fetch_papers argument
    retstart,           \* fetch_papers argument
    id_list,            \* fetch_papers: the identifiers of the search response
    papers,             \* fetch_papers: the parsed records
    batches,            \* history: the value of batch_papers of every finished page
    log,                \* history: the requests and pauses completed, in order
    outcome,            \* what the call handed to its caller
    xml_data,           \* extractor: the document handed to the extractor
    parse_outcome,      \* extractor: the outcome of _parse_pubmed_xml(xml_data)
    extract_outcome     \* extractor: the outcome of extract_paper_info(xml_data)

classifierVars == <<affiliation_text, verdict>>

batchVars == <<total_results, batch_size, start, all_papers, batches>>

frameVars == <<max_results, retstart, id_list, papers>>

fetcherVars == <<pc, entry, query, batchVars, frameVars, log, outcome>>

extractorVars == <<xml_data, parse_outcome, extract_outcome>>

vars == <<classifierVars, fetcherVars, extractorVars>>

(***************************************************************************)
(* Bounds of the model.                                                    *)
(***************************************************************************)
MaxTokens == 3
MaxTotal == 3
MaxBatch == 2
MaxPageRecs == 2
MaxIds == 1
MaxAuthors == 2
MaxArticles == 2

(***************************************************************************)
(* Text primitives.                                                        *)
(***************************************************************************)
LowerLetters ==
    {"a","b","c","d","e","f","g","h","i","j","k","l","m",
     "n","o","p","q","r","s","t","u","v","w","x","y","z"}

UpperToLower ==
    ("A" :> "a") @@ ("B" :> "b") @@ ("C" :> "c") @@ ("D" :> "d") @@
    ("E" :> "e") @@ ("F" :> "f") @@ ("G" :> "g") @@ ("H" :> "h") @@
    ("I" :> "i") @@ ("J" :> "j") @@ ("K" :> "k") @@ ("L" :> "l") @@
    ("M" :> "m") @@ ("N" :> "n") @@ ("O" :> "o") @@ ("P" :> "p") @@
    ("Q" :> "q") @@ ("R" :> "r") @@ ("S" :> "s") @@ ("T" :> "t") @@
    ("U" :> "u") @@ ("V" :> "v") @@ ("W" :> "w") @@ ("X" :> "x") @@
    ("Y" :> "y") @@ ("Z" :> "z")

UpperLetters == DOMAIN UpperToLower

Digits == {"0","1","2","3","4","5","6","7","8","9"}

\* regular-expression class \w on ASCII text
WordChars == LowerLetters \cup UpperLetters \cup Digits \cup {"_"}

\* regular-expression class \s, and the characters str.strip() removes
SpaceChars == {" ", "\t", "\n", "\r", "\f"}

CharAt(s, p) == SubSeq(s, p, p)

\* str.lower() of one character
LowerChar(c) == IF c \in UpperLetters THEN UpperToLower[c] ELSE c

\* str.lower()
RECURSIVE Lower(_)
Lower(s) ==
    IF s = "" THEN ""
    ELSE LowerChar(CharAt(s, 1)) \o Lower(SubSeq(s, 2, Len(s)))

\* Python's `k in s` for strings
Contains(s, k) ==
    \E i \in 1..(Len(s) - Len(k) + 1) : SubSeq(s, i, i + Len(k) - 1) = k

\* `any(k in s for k in keywords)` as the two keyword loops compute it
ContainsAny(s, keywords) ==
    \E n \in 1..Len(keywords) : Contains(s, keywords[n])

(***************************************************************************)
(* Regular-expression matching by sets of positions.  A position p in      *)
(* 1..Len(s)+1 stands for the gap in front of character p.                 *)
(***************************************************************************)
Positions(s) == 1..(Len(s) + 1)

IsWordAt(s, p) == p \in 1..Len(s) /\ CharAt(s, p) \in WordChars

\* \b : a word character on exactly one side of the gap
WordBoundary(s, p) == IsWordAt(s, p - 1) # IsWordAt(s, p)

AtBoundary(s, from) == {p \in from : WordBoundary(s, p)}

\* [class]+ : one or more characters of the class
OneOrMore(s, from, class) ==
    {q \in Positions(s) :
        \E p \in from : p < q /\ \A r \in p..(q - 1) : CharAt(s, r) \in class}

\* a literal
Literal(s, from, lit) ==
    {p + Len(lit) :
        p \in {q \in from : /\ q + Len(lit) - 1 <= Len(s)
                            /\ SubSeq(s, q, q + Len(lit) - 1) = lit}}

\* (a|b|c)
OneOf(s, from, alts) == UNION {Literal(s, from, a) : a \in alts}

\* r'\b\w+\s+(research|therapeutics|sciences|technologies|solutions|partners)\b'
IndustryPattern1(s) ==
    AtBoundary(s,
      OneOf(s,
        OneOrMore(s, OneOrMore(s, AtBoundary(s, Positions(s)), WordChars), SpaceChars),
        {"research", "therapeutics", "sciences", "technologies", "solutions", "partners"}))
    # {}

\* r'\b\w+\s+&\s+\w+\s+(pharmaceuticals|biotechnology|sciences)\b'
IndustryPattern2(s) ==
    AtBoundary(s,
      OneOf(s,
        OneOrMore(s,
          OneOrMore(s,
            OneOrMore(s,
              Literal(s,
                OneOrMore(s, OneOrMore(s, AtBoundary(s, Positions(s)), WordChars), SpaceChars),
                "&"),
              SpaceChars),
            WordChars),
          SpaceChars),
        {"pharmaceuticals", "biotechnology", "sciences"}))
    # {}

\* r'\b\w+\s+(pharma|biotech|therapeutics)\b'
IndustryPattern3(s) ==
    AtBoundary(s,
      OneOf(s,
        OneOrMore(s, OneOrMore(s, AtBoundary(s, Positions(s)), WordChars), SpaceChars),
        {"pharma", "biotech", "therapeutics"}))
    # {}

\* any(re.search(pattern, text) for pattern in industry_patterns)
MatchesIndustryPattern(s) ==
    IndustryPattern1(s) \/ IndustryPattern2(s) \/ IndustryPattern3(s)

(***************************************************************************)
(* The affiliation classifier.                                             *)
(***************************************************************************)
academic_keywords ==
    << "university", "college", "institute", "school", "academy", "hospital",
       "medical center", "clinic", "foundation", "government", "ministry",
       "department of", "national institute", "nih", "nsf", "nci", "cdc",
       "fda", "who", "university of", "college of", "institute of" >>

industry_keywords ==
    << "pharma", "biotech", "biotechnology", "pharmaceutical", "inc.", "ltd.",
       "corporation", "corp.", "company", "co.", "limited", "llc", "l.l.c.",
       "novartis", "pfizer", "merck", "johnson & johnson", "roche", "astrazeneca",
       "bristol-myers", "bristol myers", "eli lilly", "sanofi", "gilead",
       "amgen", "biogen", "genentech", "regeneron", "moderna", "biontech",
       "astra", "zeneca", "glaxosmithkline", "gsk", "abbvie", "takeda",
       "bayer", "boehringer", "ingelheim", "abbott", "medtronic", "baxter",
       "thermo fisher", "illumina", "qiagen", "agilent", "waters", "perkinelmer" >>

\* faulty variant: the industry keywords are looked up before the academic ones
IsIndustryAffiliationIndustryFirst(text) ==
    IF text = "" THEN FALSE
    ELSE IF ContainsAny(text, industry_keywords) THEN TRUE
    ELSE IF ContainsAny(text, academic_keywords) THEN FALSE
    ELSE MatchesIndustryPattern(text)

\* faulty variant: the industry keyword loop is missing
IsIndustryAffiliationNoKeywords(text) ==
    IF text = "" THEN FALSE
    ELSE IF ContainsAny(text, academic_keywords) THEN FALSE
    ELSE MatchesIndustryPattern(text)

\* faulty variant: the final default is Industry
IsIndustryAffiliationDefaultTrue(text) ==
    IF text = "" THEN FALSE
    ELSE IF ContainsAny(text, academic_keywords) THEN FALSE
    ELSE IF ContainsAny(text, industry_keywords) THEN TRUE
    ELSE IF MatchesIndustryPattern(text) THEN TRUE
    ELSE TRUE

\* _is_industry_affiliation(affiliation_text); the argument is lowercase
IsIndustryAffiliation(text) ==
    IF text = "" THEN FALSE
    ELSE IF ContainsAny(text, academic_keywords) THEN FALSE
    ELSE IF ContainsAny(text, industry_keywords) THEN TRUE
    ELSE IF MatchesIndustryPattern(text) THEN TRUE
    ELSE FALSE

(***************************************************************************)
(* Email extraction.                                                       *)
(***************************************************************************)
Letters == LowerLetters \cup UpperLetters

\* [A-Za-z0-9._%+-]
EmailLocalChars == Letters \cup Digits \cup {".", "_", "%", "+", "-"}

\* [A-Za-z0-9.-]
EmailDomainChars == Letters \cup Digits \cup {".", "-"}

\* [A-Z|a-z]
EmailTldChars == Letters \cup {"|"}

\* [class]{2,}
TwoOrMore(s, from, class) == OneOrMore(s, OneOrMore(s, from, class), class)

\* the positions where a match of
\* r'\b[A-Za-z0-9._%+-]+@[A-Za-z0-9.-]+\.[A-Z|a-z]{2,}\b' begun at `from` can end
EmailEnds(s, from) ==
    AtBoundary(s,
      TwoOrMore(s,
        Literal(s,
          OneOrMore(s,
            Literal(s,
              OneOrMore(s, AtBoundary(s, {from}), EmailLocalChars),
              "@"),
            EmailDomainChars),
          "."),
        EmailTldChars))

SetMin(S) == CHOOSE x \in S : \A y \in S : x <= y
SetMax(S) == CHOOSE x \in S : \A y \in S : y <= x

\* re.search(...) and email_match.group(): the leftmost match, each greedy
\* quantifier as long as it can be; "" stands for no match
EmailSearch(s) ==
    LET starts == {p \in Positions(s) : EmailEnds(s, p) # {}}
    IN  IF starts = {} THEN ""
        ELSE SubSeq(s, SetMin(starts), SetMax(EmailEnds(s, SetMin(starts))) - 1)

(***************************************************************************)
(* The XML document, as far as the extractor looks at it.  An optional     *)
(* element is a sequence of at most one text: <<>> when find() returns     *)
(* None, <<t>> for an element of text t ("" for an element with no text).  *)
(*   document: [blank, wellformed, articles]; blank says the text is empty  *)
(*             or only whitespace, which is not well-formed either         *)
(*   article:  [pmid, title, abstract, journal, doi, pubdate, authorlist]  *)
(*   pubdate:  <<>> or <<[year, month, day]>>                              *)
(*   authorlist: <<>> or <<sequence of authors>>                           *)
(*   author:   [last, fore, affiliations]                                  *)
(***************************************************************************)
NoElem == <<>>

Elem(t) == <<t>>

\* `elem is not None and elem.text`
HasText(elem) == elem # NoElem /\ elem[1] # ""

TextOf(elem) == elem[1]

\* set(xs)
SetOfList(xs) == {xs[i] : i \in DOMAIN xs}

\* list(S) of a set: its elements once each, in an order the set decides
ListOfSet(S) ==
    CHOOSE q \in [1..Cardinality(S) -> S] : {q[i] : i \in DOMAIN q} = S

\* faulty variant: the duplicates are kept
ListOfSetOfListKeepsDuplicates(xs) == xs

\* list(set(xs))
ListOfSetOfList(xs) == ListOfSet(SetOfList(xs))

\* faulty variant: the elements are looked for, their texts are not
HasFullNamePresentOnly(author) == author.last # NoElem /\ author.fore # NoElem

\* lines 187 and 345: both name parts present and non-empty
HasFullName(author) == HasText(author.last) /\ HasText(author.fore)

\* f"{first_name_elem.text} {last_name_elem.text}"
AuthorName(author) == TextOf(author.fore) \o " " \o TextOf(author.last)

\* lines 351-354: the affiliations of one author classified as industry, in order
RECURSIVE IndustryAffiliationsOf(_)
IndustryAffiliationsOf(affs) ==
    IF affs = <<>> THEN <<>>
    ELSE (IF Head(affs) # "" /\ IsIndustryAffiliation(Lower(Head(affs)))
          THEN <<Head(affs)>> ELSE <<>>)
         \o IndustryAffiliationsOf(Tail(affs))

\* lines 358-364: the first email matched in the affiliations of one author
RECURSIVE FirstEmailOf(_)
FirstEmailOf(affs) ==
    IF affs = <<>> THEN ""
    ELSE IF Head(affs) # "" /\ Contains(Head(affs), "@") /\ EmailSearch(Head(affs)) # ""
         THEN EmailSearch(Head(affs))
         ELSE FirstEmailOf(Tail(affs))

\* lines 341-364: the author loop; acc is
\* [authors, industry_authors, industry_affiliations, corresponding_email]
RECURSIVE AuthorLoop(_, _)
AuthorLoop(authors, acc) ==
    IF authors = <<>> THEN acc
    ELSE LET author == Head(authors)
             ind    == IndustryAffiliationsOf(author.affiliations)
         IN  IF HasFullName(author)
             THEN AuthorLoop(Tail(authors),
                    [authors |-> Append(acc.authors, AuthorName(author)),
                     industry_authors |->
                         acc.industry_authors \o [i \in 1..Len(ind) |-> AuthorName(author)],
                     industry_affiliations |-> acc.industry_affiliations \o ind,
                     corresponding_email |->
                         IF acc.corresponding_email = ""
                         THEN FirstEmailOf(author.affiliations)
                         ELSE acc.corresponding_email])
             ELSE AuthorLoop(Tail(authors), acc)

\* lines 334-340: the lists start empty; no AuthorList element leaves them so
AuthorFields(article) ==
    LET empty == [authors |-> <<>>, industry_authors |-> <<>>,
                  industry_affiliations |-> <<>>, corresponding_email |-> ""]
    IN  IF article.authorlist = NoElem THEN empty
        ELSE AuthorLoop(article.authorlist[1], empty)

\* a dict entry that is set only under a condition
OptionalKey(key, elem) ==
    IF HasText(elem) THEN key :> TextOf(elem) ELSE [k \in {} |-> ""]

\* `x.text if present and non-empty else ""`
TextOrEmpty(elem) == IF HasText(elem) THEN TextOf(elem) ELSE ""

\* lines 379-391
PublicationYear(article) ==
    IF article.pubdate # NoElem /\ HasText(article.pubdate[1].year)
    THEN TextOf(article.pubdate[1].year) ELSE ""

PublicationMonth(article) ==
    IF article.pubdate # NoElem /\ HasText(article.pubdate[1].year)
    THEN TextOrEmpty(article.pubdate[1].month) ELSE ""

\* lines 314-400: the paper_data dict of one PubmedArticle
PaperData(article) ==
    LET a == AuthorFields(article)
    IN  OptionalKey("pmid", article.pmid) @@
        OptionalKey("title", article.title) @@
        [abstract |-> TextOrEmpty(article.abstract),
         authors |-> a.authors,
         industry_authors |-> a.industry_authors,
         industry_affiliations |-> ListOfSetOfList(a.industry_affiliations),
         corresponding_email |-> a.corresponding_email,
         journal |-> TextOrEmpty(article.journal),
         publication_year |-> PublicationYear(article),
         publication_month |-> PublicationMonth(article),
         doi |-> TextOrEmpty(article.doi)]

(***************************************************************************)
(* Outcomes of a call: a returned value or a raised exception.             *)
(***************************************************************************)
Return(value) == [kind |-> "return", exc |-> "", value |-> value]

Raise(exc) == [kind |-> "raise", exc |-> exc, value |-> <<>>]

NoOutcome == [kind |-> "none", exc |-> "", value |-> <<>>]

\* faulty variant: a document that does not parse yields no records, silently
ParsePubmedXmlSwallows(doc) ==
    IF ~doc.wellformed THEN Return(<<>>)
    ELSE Return([i \in 1..Len(doc.articles) |-> PaperData(doc.articles[i])])

\* faulty variant: an article without a PMID text is left out
ParsePubmedXmlSkipsIncomplete(doc) ==
    IF ~doc.wellformed THEN Raise("PubMedParsingError")
    ELSE Return(SelectSeq([i \in 1..Len(doc.articles) |-> PaperData(doc.articles[i])],
                          LAMBDA r : "pmid" \in DOMAIN r))

\* _parse_pubmed_xml(xml_content)
ParsePubmedXml(doc) ==
    IF ~doc.wellformed THEN Raise("PubMedParsingError")
    ELSE Return([i \in 1..Len(doc.articles) |-> PaperData(doc.articles[i])])

(***************************************************************************)
(* The second extraction entry point, extract_paper_info.                  *)
(***************************************************************************)
\* sep.join(xs)
RECURSIVE Join(_, _)
Join(sep, xs) ==
    IF xs = <<>> THEN ""
    ELSE IF Len(xs) = 1 THEN Head(xs)
    ELSE Head(xs) \o sep \o Join(sep, Tail(xs))

\* lines 208-213: the email of the first Affiliation element of one author
FirstAffiliationEmail(affs) ==
    IF affs # <<>> /\ Head(affs) # "" /\ Contains(Head(affs), "@")
    THEN EmailSearch(Head(affs))
    ELSE ""

\* lines 182-213: the author loop; acc is
\* [non_academic_authors, company_affiliations, corresponding_email]
RECURSIVE InfoAuthorLoop(_, _)
InfoAuthorLoop(authors, acc) ==
    IF authors = <<>> THEN acc
    ELSE LET author      == Head(authors)
             author_name == IF HasFullName(author) THEN AuthorName(author) ELSE ""
             ind         == IndustryAffiliationsOf(author.affiliations)
             has_industry_affiliation == ind # <<>>
         IN  InfoAuthorLoop(Tail(authors),
                [non_academic_authors |->
                    IF has_industry_affiliation /\ author_name # ""
                    THEN Append(acc.non_academic_authors, author_name)
                    ELSE acc.non_academic_authors,
                 company_affiliations |-> acc.company_affiliations \o ind,
                 corresponding_email |->
                    IF acc.corresponding_email = ""
                    THEN FirstAffiliationEmail(author.affiliations)
                    ELSE acc.corresponding_email])

\* lines 176-181
InfoAuthorFields(article) ==
    LET empty == [non_academic_authors |-> <<>>, company_affiliations |-> <<>>,
                  corresponding_email |-> ""]
    IN  IF article.authorlist = NoElem THEN empty
        ELSE InfoAuthorLoop(article.authorlist[1], empty)

\* lines 159-173: '-'.join(date_parts)
PublicationDate(article) ==
    IF article.pubdate = NoElem THEN ""
    ELSE LET d == article.pubdate[1]
         IN  Join("-", (IF HasText(d.year) THEN <<TextOf(d.year)>> ELSE <<>>)
                       \o (IF HasText(d.month) THEN <<TextOf(d.month)>> ELSE <<>>)
                       \o (IF HasText(d.day) THEN <<TextOf(d.day)>> ELSE <<>>))

\* lines 139-219: the paper_info dict of one PubmedArticle
PaperInfo(article) ==
    LET a == InfoAuthorFields(article)
    IN  ("PubmedID" :> TextOrEmpty(article.pmid)) @@
        ("Title" :> TextOrEmpty(article.title)) @@
        ("Publication Date" :> PublicationDate(article)) @@
        ("Non-academic Author(s)" :> Join("; ", a.non_academic_authors)) @@
        ("Company Affiliation(s)" :> Join("; ", ListOfSetOfList(a.company_affiliations))) @@
        ("Corresponding Author Email" :> a.corresponding_email)

\* extract_paper_info(xml_data)
ExtractPaperInfo(doc) ==
    IF doc.blank THEN Raise("ValueError")
    ELSE IF ~doc.wellformed THEN Raise("PubMedParsingError")
    ELSE Return([i \in 1..Len(doc.articles) |-> PaperInfo(doc.articles[i])])

(***************************************************************************)
(* The remote service.  Its responses are not under the program's control: *)
(* any identifier list up to MaxIds and any document of up to MaxPageRecs  *)
(* articles may answer any request, and either request may fail.           *)
(***************************************************************************)
SampleArticles ==
    << [pmid |-> Elem("12345"), title |-> Elem("Drug X Trial"),
        abstract |-> NoElem, journal |-> Elem("Lancet"), doi |-> NoElem,
        pubdate |-> Elem([year |-> Elem("2024"), month |-> Elem("Jan"), day |-> NoElem]),
        authorlist |-> Elem(<< [last |-> Elem("Doe"), fore |-> Elem("Jane"),
                                affiliations |-> <<"Pfizer Inc. jd@pfizer.com">>] >>)],
       [pmid |-> NoElem, title |-> Elem(""),
        abstract |-> Elem("Text"), journal |-> NoElem, doi |-> Elem("10.1/x"),
        pubdate |-> NoElem,
        authorlist |-> NoElem],
       [pmid |-> Elem("777"), title |-> NoElem,
        abstract |-> NoElem, journal |-> NoElem, doi |-> NoElem,
        pubdate |-> Elem([year |-> NoElem, month |-> Elem("Feb"), day |-> NoElem]),
        authorlist |-> Elem(<< [last |-> Elem("Roe"), fore |-> NoElem,
                                affiliations |-> <<"Acme Therapeutics">>],
                               [last |-> Elem("Poe"), fore |-> Elem("Ed"),
                                affiliations |-> <<"University of X", "">>] >>)] >>

SampleArticle(k) == SampleArticles[((k - 1) % Len(SampleArticles)) + 1]

SamplePmids == <<"12345", "67890", "777">>

\* the JSON path esearchresult.idlist of a search response
IdLists ==
    { [i \in 1..n |-> SamplePmids[((i - 1) % Len(SamplePmids)) + 1]] : n \in 0..MaxIds }

\* status "transport": requests.RequestException (timeout, HTTP status, network);
\* status "invalid": the body is not the JSON object expected
SearchResponses ==
    { [status |-> "transport", idlist |-> <<>>], [status |-> "invalid", idlist |-> <<>>] }
    \cup { [status |-> "ok", idlist |-> ids] : ids \in IdLists }

Documents ==
    { [blank |-> FALSE, wellformed |-> FALSE, articles |-> <<>>] }
    \cup { [blank |-> FALSE, wellformed |-> TRUE,
            articles |-> [i \in 1..n |-> SampleArticle(base + i)]] :
              n \in 0..MaxPageRecs, base \in 0..1 }

FetchResponses ==
    { [status |-> "transport",
       doc |-> [blank |-> FALSE, wellformed |-> FALSE, articles |-> <<>>]] }
    \cup { [status |-> "ok", doc |-> d] : d \in Documents }

(***************************************************************************)
(* The paginated fetcher.                                                  *)
(***************************************************************************)
\* str.strip()
RECURSIVE LStrip(_)
LStrip(s) ==
    IF s # "" /\ CharAt(s, 1) \in SpaceChars THEN LStrip(SubSeq(s, 2, Len(s))) ELSE s

RECURSIVE RStrip(_)
RStrip(s) ==
    IF s # "" /\ CharAt(s, Len(s)) \in SpaceChars
    THEN RStrip(SubSeq(s, 1, Len(s) - 1)) ELSE s

Strip(s) == RStrip(LStrip(s))

\* `not query or not query.strip()`
EmptyQuery(q) == q = "" \/ Strip(q) = ""

\* faulty variant: retstart is not validated
FetchArgsInvalidNoRetstart(q, m, r) == EmptyQuery(q) \/ m <= 0

\* fetch_papers lines 40-47: the argument checks that raise ValueError
FetchArgsInvalid(q, m, r) == EmptyQuery(q) \/ m <= 0 \/ r < 0

\* search_papers_batch lines 426-433
BatchArgsInvalid(q, t, b) == EmptyQuery(q) \/ t <= 0 \/ b <= 0

\* faulty variant: an empty identifier list goes on to the detail call
NoPapersFoundNever(ids) == FALSE

\* fetch_papers line 74: `if not id_list`
NoPapersFound(ids) == ids = <<>>

\* fetch_papers lines 101-108: every exception raised inside the try block,
\* PubMedParsingError included, leaves as PubMedAPIError
FetchOnException(exc) == Raise("PubMedAPIError")

\* faulty variant: the loop never stops early
StopEarlyNever(batch_papers, b) == FALSE

\* search_papers_batch lines 443-444: `if len(batch_papers) < batch_size: break`
StopEarly(batch_papers, b) == Len(batch_papers) < b

\* faulty variant: the loop variable advances by one
RangeNextByOne(s, b) == s + 1

\* search_papers_batch line 438: the step of range(0, total_results, batch_size)
RangeNext(s, b) == s + b

\* line 438: range(0, total_results, batch_size) has a value s
\* faulty variant: the offset may reach total_results
InRangeInclusive(s, t) == s <= t

InRange(s, t) == s < t

\* faulty variant: the except clause returns what was accumulated
BatchOnExceptionPartial(all) == Return(all)

\* search_papers_batch lines 449-452
BatchOnException(all) == Raise("PubMedAPIError")

\* an entry of the history log; retstart and retmax are those of the
\* fetch_papers call the event belongs to
Event(op, status, ids) ==
    [op |-> op, retstart |-> retstart, retmax |-> max_results,
     term |-> Strip(query), status |-> status, ids |-> ids]

\* faulty variant: no pause
RateLimitPauseSkipped(l) == l

\* fetch_papers line 96: time.sleep(0.34)
RateLimitPause(l) == Append(l, Event("sleep", "ok", <<>>))

ExtractorIdle ==
    /\ xml_data = [blank |-> TRUE, wellformed |-> FALSE, articles |-> <<>>]
    /\ parse_outcome = NoOutcome
    /\ extract_outcome = NoOutcome

FetcherIdle ==
    /\ pc = "idle"
    /\ entry = "none"
    /\ query = ""
    /\ total_results = 0
    /\ batch_size = 0
    /\ start = 0
    /\ all_papers = <<>>
    /\ batches = <<>>
    /\ max_results = 0
    /\ retstart = 0
    /\ id_list = <<>>
    /\ papers = <<>>
    /\ log = <<>>
    /\ outcome = NoOutcome

Init ==
    /\ FetcherIdle
    /\ ExtractorIdle
    /\ affiliation_text = ""
    /\ verdict = "none"

\* the call handed its outcome to the caller
Finish(o) ==
    /\ pc' = "done"
    /\ outcome' = o

\* fetch_papers ends with outcome o; in search_papers_batch the loop goes on
\* from line 440 up to the next request (a new fetch_papers frame, lines
\* 40-61) or the end of the call
FetchEnds(o) ==
    IF entry = "fetch_papers"
    THEN /\ Finish(o)
         /\ UNCHANGED <<batchVars, max_results, retstart>>
    ELSE IF o.kind = "raise"
    THEN /\ Finish(BatchOnException(all_papers))
         /\ UNCHANGED <<batchVars, max_results, retstart>>
    ELSE /\ all_papers' = all_papers \o o.value
         /\ batches' = Append(batches, o.value)
         /\ UNCHANGED <<total_results, batch_size>>
         /\ IF StopEarly(o.value, batch_size)
               \/ ~InRange(RangeNext(start, batch_size), total_results)
            THEN /\ Finish(Return(all_papers'))
                 /\ UNCHANGED <<start, max_results, retstart>>
            ELSE /\ start' = RangeNext(start, batch_size)
                 /\ max_results' = batch_size
                 /\ retstart' = start'
                 /\ IF FetchArgsInvalid(query, batch_size, start')
                    THEN Finish(BatchOnException(all_papers'))
                    ELSE pc' = "esearch" /\ UNCHANGED outcome

\* the locals of the fetch_papers frame: kept when the call is over, fresh
\* when the loop has entered fetch_papers again
FrameAfter(ids, recs) ==
    IF pc' = "esearch"
    THEN id_list' = <<>> /\ papers' = <<>>
    ELSE id_list' = ids /\ papers' = recs

\* the caller calls fetch_papers(q, m, r): lines 40-61
CallFetchPapers(q, m, r) ==
    /\ pc = "idle"
    /\ entry' = "fetch_papers"
    /\ query' = q
    /\ max_results' = m
    /\ retstart' = r
    /\ IF FetchArgsInvalid(q, m, r)
       THEN Finish(Raise("ValueError"))
       ELSE pc' = "esearch" /\ UNCHANGED outcome
    /\ UNCHANGED <<batchVars, id_list, papers, log, classifierVars, extractorVars>>

\* the caller calls search_papers_batch(q, t, b): lines 426-439, up to the
\* first request
CallSearchPapersBatch(q, t, b) ==
    /\ pc = "idle"
    /\ entry' = "search_papers_batch"
    /\ query' = q
    /\ total_results' = t
    /\ batch_size' = b
    /\ start' = 0
    /\ all_papers' = <<>>
    /\ IF BatchArgsInvalid(q, t, b)
       THEN /\ Finish(Raise("ValueError"))
            /\ UNCHANGED <<max_results, retstart>>
       ELSE IF ~InRange(0, t)
       THEN /\ Finish(Return(<<>>))
            /\ UNCHANGED <<max_results, retstart>>
       ELSE /\ max_results' = b
            /\ retstart' = 0
            /\ IF FetchArgsInvalid(q, b, 0)
               THEN Finish(BatchOnException(<<>>))
               ELSE pc' = "esearch" /\ UNCHANGED outcome
    /\ UNCHANGED <<batches, id_list, papers, log, classifierVars, extractorVars>>

\* the search request completes: lines 67-78
ESearch(resp) ==
    /\ pc = "esearch"
    /\ log' = Append(log, Event("esearch", resp.status, resp.idlist))
    /\ IF resp.status # "ok"
       THEN /\ FetchEnds(FetchOnException("RequestException"))
            /\ FrameAfter(id_list, papers)
       ELSE IF NoPapersFound(resp.idlist)
       THEN /\ FetchEnds(Return(<<>>))
            /\ FrameAfter(resp.idlist, papers)
       ELSE /\ pc' = "efetch"
            /\ id_list' = resp.idlist
            /\ UNCHANGED <<batchVars, max_results, retstart, papers, outcome>>
    /\ UNCHANGED <<entry, query, classifierVars, extractorVars>>

\* the detail request completes and its body is parsed: lines 81-93
EFetch(resp) ==
    /\ pc = "efetch"
    /\ log' = Append(log, Event("efetch",
                 IF resp.status # "ok" THEN resp.status
                 ELSE IF resp.doc.wellformed THEN "ok" ELSE "malformed",
                 id_list))
    /\ IF resp.status # "ok"
       THEN /\ FetchEnds(FetchOnException("RequestException"))
            /\ FrameAfter(id_list, papers)
       ELSE LET parsed == ParsePubmedXml(resp.doc)
            IN  IF parsed.kind = "raise"
                THEN /\ FetchEnds(FetchOnException(parsed.exc))
                     /\ FrameAfter(id_list, papers)
                ELSE /\ pc' = "sleep"
                     /\ papers' = parsed.value
                     /\ UNCHANGED <<batchVars, max_results, retstart, id_list, outcome>>
    /\ UNCHANGED <<entry, query, classifierVars, extractorVars>>

\* the pause ends and fetch_papers returns: lines 96-99
Sleep ==
    /\ pc = "sleep"
    /\ log' = RateLimitPause(log)
    /\ FetchEnds(Return(papers))
    /\ FrameAfter(id_list, papers)
    /\ UNCHANGED <<entry, query, classifierVars, extractorVars>>

Queries == {"", " ", " flu "}

Next ==
    \/ \E q \in Queries, m \in -1..MaxBatch, r \in -1..MaxBatch : CallFetchPapers(q, m, r)
    \/ \E q \in Queries, t \in -1..MaxTotal, b \in -1..MaxBatch : CallSearchPapersBatch(q, t, b)
    \/ \E resp \in SearchResponses : ESearch(resp)
    \/ \E resp \in FetchResponses : EFetch(resp)
    \/ Sleep

Spec == Init /\ [][Next]_vars

(***************************************************************************)
(* Properties of the paginated fetcher, under Spec.                        *)
(***************************************************************************)
IsBatch == entry = "search_papers_batch"

IsSearch(e) == e.op = "esearch"

\* the search requests completed so far, in order
SearchEvents == SelectSeq(log, IsSearch)

\* a page fetch is in flight or completed for every search request made
PageFetches == Len(SearchEvents) + (IF pc = "esearch" THEN 1 ELSE 0)

RECURSIVE Flatten(_)
Flatten(pages) ==
    IF pages = <<>> THEN <<>> ELSE Head(pages) \o Flatten(Tail(pages))

Ceil(t, b) == (t + b - 1) \div b

BlankQuery == \A p \in 1..Len(query) : CharAt(query, p) \in SpaceChars

\* C1: in search_papers_batch, once a page has returned fewer than batch_size
\* records it is the last page: no further page fetch is issued and the call
\* has returned the records accumulated so far.
C1_StopAfterShortPage ==
    IsBatch =>
        \A k \in DOMAIN batches :
            Len(batches[k]) < batch_size =>
                /\ k = Len(batches)
                /\ PageFetches = k
                /\ pc = "done"
                /\ outcome = Return(Flatten(batches))

C1_Witness ==
    /\ IsBatch
    /\ pc = "done"
    /\ Len(batches) = 2
    /\ Len(batches[1]) = batch_size
    /\ Len(batches[2]) < batch_size
    /\ Len(outcome.value) < total_results
    /\ PageFetches < Ceil(total_results, batch_size)
    /\ outcome.kind = "return"

\* C2: search_papers_batch issues at most ceil(total_results / batch_size)
\* page fetches, the k-th (from 0) with retstart = k * batch_size and
\* max_results = batch_size, and returns the pages' records concatenated in
\* page order.
C2_PagesAndOrder ==
    (IsBatch /\ total_results > 0 /\ batch_size > 0) =>
        /\ PageFetches <= Ceil(total_results, batch_size)
        /\ \A k \in DOMAIN SearchEvents :
              /\ SearchEvents[k].retstart = (k - 1) * batch_size
              /\ SearchEvents[k].retmax = batch_size
        /\ pc = "esearch" =>
              /\ retstart = Len(SearchEvents) * batch_size
              /\ max_results = batch_size
        /\ (pc = "done" /\ outcome.kind = "return") =>
              outcome.value = Flatten(batches)

C2_Witness ==
    /\ IsBatch
    /\ pc = "done"
    /\ outcome.kind = "return"
    /\ Len(SearchEvents) = Ceil(total_results, batch_size)
    /\ Len(batches) = 2
    /\ batch_size = 2
    /\ batches[1] # batches[2]
    /\ outcome.value = batches[1] \o batches[2]

InvalidInput ==
    \/ entry = "fetch_papers" /\ (BlankQuery \/ max_results <= 0 \/ retstart < 0)
    \/ IsBatch /\ (BlankQuery \/ total_results <= 0 \/ batch_size <= 0)

\* C3: fetch_papers and search_papers_batch called with a blank query, a
\* non-positive count or a negative retstart raise ValueError, and no search
\* or detail request has been made.
C3_ValidationBeforeNetwork ==
    InvalidInput => (pc = "done" /\ outcome = Raise("ValueError") /\ log = <<>>)

C3_Witness ==
    /\ entry = "fetch_papers"
    /\ ~BlankQuery
    /\ max_results > 0
    /\ retstart < 0
    /\ outcome = Raise("ValueError")
    /\ log = <<>>

LastEvent == log[Len(log)]

\* C4: when the detail response of fetch_papers is malformed XML, the caller
\* gets PubMedParsingError, not the PubMedAPIError of transport failures.
C4_ParsingErrorSurfaces ==
    (/\ entry = "fetch_papers"
     /\ pc = "done"
     /\ log # <<>>
     /\ LastEvent.op = "efetch"
     /\ LastEvent.status = "malformed")
        => outcome = Raise("PubMedParsingError")

\* C5: in search_papers_batch a failed request is the last one made: it is
\* not made again, no later page is requested, and the call ends with an
\* error instead of the records of the earlier pages.
C5_FailureAborts ==
    IsBatch =>
        \A i \in DOMAIN log :
            log[i].status # "ok" =>
                /\ i = Len(log)
                /\ pc = "done"
                /\ outcome.kind = "raise"
                /\ outcome.value = <<>>

C5_Witness ==
    /\ IsBatch
    /\ pc = "done"
    /\ batches # <<>>
    /\ batches[1] # <<>>
    /\ LastEvent.status # "ok"
    /\ outcome.kind = "raise"

\* C6: when the search response of fetch_papers has an empty identifier
\* list, the call returns the empty sequence and makes no detail request.
C6_EmptyIdList ==
    entry = "fetch_papers" =>
        \A i \in DOMAIN log :
            (log[i].op = "esearch" /\ log[i].status = "ok" /\ log[i].ids = <<>>) =>
                /\ pc = "done"
                /\ outcome = Return(<<>>)
                /\ \A j \in DOMAIN log : log[j].op # "efetch"

C6_Witness ==
    /\ entry = "fetch_papers"
    /\ pc = "done"
    /\ Len(log) = 1
    /\ LastEvent.op = "esearch"
    /\ LastEvent.status = "ok"
    /\ LastEvent.ids = <<>>
    /\ outcome = Return(<<>>)

\* position i of the log is a search request, completed or (just past the
\* end of the log) in flight
SearchBeginsAt(i) ==
    \/ i \in DOMAIN log /\ log[i].op = "esearch"
    \/ i = Len(log) + 1 /\ pc = "esearch"

\* C7: in search_papers_batch every search request after the first begins
\* only after the previous page's search request, detail request and pause
\* have completed, in that order.
C7_Sequential ==
    IsBatch =>
        \A i \in 2..(Len(log) + 1) :
            SearchBeginsAt(i) =>
                /\ i >= 4
                /\ log[i - 3].op = "esearch" /\ log[i - 3].status = "ok"
                /\ log[i - 2].op = "efetch" /\ log[i - 2].status = "ok"
                /\ log[i - 1].op = "sleep"
                /\ log[i - 3].retstart = log[i - 1].retstart
                /\ log[i - 2].retstart = log[i - 1].retstart

C7_Witness ==
    /\ IsBatch
    /\ Len(SearchEvents) = 2
    /\ Len(log) >= 5
    /\ log[4].op = "esearch"
    /\ log[3].op = "sleep"

(***************************************************************************)
(* Classifier specification: an affiliation text is drawn from the texts   *)
(* that up to MaxTokens vocabulary tokens spell, and classified the way    *)
(* the extractors call the classifier, on the lowercased text.             *)
(***************************************************************************)
AffiliationTokens ==
    { "University ", "Pfizer ", "Inc.", "Acme ", "Therapeutics",
      "& ", "Sciences", "who", "Lab ", "Dept, " }

RECURSIVE Spell(_)
Spell(tokens) ==
    IF tokens = <<>> THEN "" ELSE Head(tokens) \o Spell(Tail(tokens))

AffiliationTexts ==
    { Spell(t) : t \in UNION { [1..n -> AffiliationTokens] : n \in 0..MaxTokens } }

InitClassify ==
    /\ affiliation_text \in AffiliationTexts
    /\ verdict = "none"
    /\ FetcherIdle
    /\ ExtractorIdle

\* _is_industry_affiliation(affiliation.text.lower())
Classify ==
    /\ verdict = "none"
    /\ verdict' = IF IsIndustryAffiliation(Lower(affiliation_text))
                  THEN "Industry" ELSE "Academic"
    /\ UNCHANGED <<affiliation_text, fetcherVars, extractorVars>>

NextClassify == Classify

SpecClassify == InitClassify /\ [][NextClassify]_vars

HasAcademicKeyword(text) == ContainsAny(Lower(text), academic_keywords)
HasIndustryKeyword(text) == ContainsAny(Lower(text), industry_keywords)

\* C8: a classified text holding both an academic and an industry keyword
\* (after lowercasing) is Academic: the academic check has priority.
C8_AcademicPriority ==
    (verdict # "none" /\ HasAcademicKeyword(affiliation_text)
                      /\ HasIndustryKeyword(affiliation_text))
        => verdict = "Academic"

C8_Witness ==
    /\ verdict = "Academic"
    /\ HasAcademicKeyword(affiliation_text)
    /\ HasIndustryKeyword(affiliation_text)

\* C9: a classified text holding an industry keyword and no academic keyword
\* is Industry.
C9_IndustryKeywordOnly ==
    (verdict # "none" /\ HasIndustryKeyword(affiliation_text)
                      /\ ~HasAcademicKeyword(affiliation_text))
        => verdict = "Industry"

C9_Witness ==
    /\ verdict = "Industry"
    /\ HasIndustryKeyword(affiliation_text)
    /\ ~HasAcademicKeyword(affiliation_text)
    /\ ~MatchesIndustryPattern(Lower(affiliation_text))

\* C10: a classified text, the empty text included, with no academic keyword,
\* no industry keyword and no fallback pattern match is Academic, and the
\* call completes with a verdict.
NoRuleApplies(text) ==
    /\ ~HasAcademicKeyword(text)
    /\ ~HasIndustryKeyword(text)
    /\ ~IndustryPattern1(Lower(text))
    /\ ~IndustryPattern2(Lower(text))
    /\ ~IndustryPattern3(Lower(text))

C10_DefaultAcademic ==
    (verdict # "none" /\ NoRuleApplies(affiliation_text)) => verdict = "Academic"

C10_Witness ==
    /\ verdict = "Academic"
    /\ affiliation_text # ""
    /\ NoRuleApplies(affiliation_text)

(***************************************************************************)
(* Extractor specification: a document is drawn from a bounded set and     *)
(* handed to each of the two extraction entry points.                      *)
(***************************************************************************)
\* the name parts of the author at a position of the author list
AuthorNames ==
    << [fore |-> "Jane", last |-> "Doe"],
       [fore |-> "Ed",   last |-> "Poe"],
       [fore |-> "Al",   last |-> "Roe"] >>

\* what an author node may look like: which name parts it has, and its
\* Affiliation texts ("" for an Affiliation element without text)
AuthorShapes ==
    { [name |-> "full",      affiliations |-> <<>>],
      [name |-> "full",      affiliations |-> <<"Pfizer Inc., NY">>],
      [name |-> "full",      affiliations |-> <<"Pfizer Inc., NY", "Pfizer Inc., NY">>],
      [name |-> "full",      affiliations |-> <<"Acme Therapeutics, a@acme.com",
                                                "Pfizer Inc., NY">>],
      [name |-> "full",      affiliations |-> <<"Dept of Y", "Biogen, b@biogen.org">>],
      [name |-> "full",      affiliations |-> <<"University of X, x@ux.edu">>],
      [name |-> "nofore",    affiliations |-> <<"Merck KGaA, m@merck.de">>],
      [name |-> "emptylast", affiliations |-> <<"Pfizer Inc., NY">>] }

AuthorNode(pos, shape) ==
    LET n == AuthorNames[((pos - 1) % Len(AuthorNames)) + 1]
    IN  [last |-> IF shape.name = "emptylast" THEN Elem("") ELSE Elem(n.last),
         fore |-> IF shape.name = "nofore" THEN NoElem ELSE Elem(n.fore),
         affiliations |-> shape.affiliations]

AuthorLists ==
    {NoElem} \cup
    { Elem([pos \in 1..Len(shapes) |-> AuthorNode(pos, shapes[pos])]) :
        shapes \in UNION { [1..m -> AuthorShapes] : m \in 0..MaxAuthors } }

FullHeader ==
    [pmid |-> Elem("12345"), title |-> Elem("Drug X Trial"), abstract |-> Elem("Text"),
     journal |-> Elem("Lancet"), doi |-> Elem("10.1/x"),
     pubdate |-> Elem([year |-> Elem("2024"), month |-> Elem("Jan"), day |-> Elem("15")])]

\* an article without any of the optional elements
BareHeader ==
    [pmid |-> NoElem, title |-> NoElem, abstract |-> NoElem,
     journal |-> NoElem, doi |-> NoElem, pubdate |-> NoElem]

\* elements that are there without text, a date without a year
HollowHeader ==
    [pmid |-> Elem(""), title |-> Elem(""), abstract |-> Elem("Other"),
     journal |-> Elem(""), doi |-> Elem("10.2/y"),
     pubdate |-> Elem([year |-> NoElem, month |-> Elem("Feb"), day |-> NoElem])]

Article(header, authorlist) ==
    [pmid |-> header.pmid, title |-> header.title, abstract |-> header.abstract,
     journal |-> header.journal, doi |-> header.doi, pubdate |-> header.pubdate,
     authorlist |-> authorlist]

\* one article with every author list
AuthorArticles == { Article(FullHeader, al) : al \in AuthorLists }

\* articles that differ in their optional elements
HeaderArticles ==
    { Article(h, al) :
        h \in {FullHeader, BareHeader, HollowHeader},
        al \in {NoElem, Elem(<<AuthorNode(1, [name |-> "full",
                                  affiliations |-> <<"Pfizer Inc., NY">>])>>)} }

WellFormed(articles) == [blank |-> FALSE, wellformed |-> TRUE, articles |-> articles]

ExtractorDocuments ==
    { [blank |-> TRUE, wellformed |-> FALSE, articles |-> <<>>],
      [blank |-> FALSE, wellformed |-> FALSE, articles |-> <<>>] }
    \cup { WellFormed(<<a>>) : a \in AuthorArticles }
    \cup { WellFormed(arts) :
             arts \in UNION { [1..n -> HeaderArticles] : n \in 0..MaxArticles } }

InitExtract ==
    /\ xml_data \in ExtractorDocuments
    /\ parse_outcome = NoOutcome
    /\ extract_outcome = NoOutcome
    /\ FetcherIdle
    /\ affiliation_text = ""
    /\ verdict = "none"

\* _parse_pubmed_xml(xml_data)
CallParsePubmedXml ==
    /\ parse_outcome = NoOutcome
    /\ parse_outcome' = ParsePubmedXml(xml_data)
    /\ UNCHANGED <<xml_data, extract_outcome, fetcherVars, classifierVars>>

\* extract_paper_info(xml_data)
CallExtractPaperInfo ==
    /\ extract_outcome = NoOutcome
    /\ extract_outcome' = ExtractPaperInfo(xml_data)
    /\ UNCHANGED <<xml_data, parse_outcome, fetcherVars, classifierVars>>

NextExtract == CallParsePubmedXml \/ CallExtractPaperInfo

SpecExtract == InitExtract /\ [][NextExtract]_vars

(***************************************************************************)
(* Properties of the extractor, under SpecExtract.                         *)
(***************************************************************************)
ParseReturned == parse_outcome.kind = "return"

ExtractReturned == extract_outcome.kind = "return"

ArticleAt(i) == xml_data.articles[i]

\* the text of an optional element, "" when there is none
ElemText(elem) == IF elem = <<>> THEN "" ELSE elem[1]

ParsedFieldNames ==
    {"pmid", "title", "abstract", "journal", "publication_year", "publication_month",
     "doi", "authors", "industry_authors", "industry_affiliations", "corresponding_email"}

InfoFieldNames ==
    {"PubmedID", "Title", "Publication Date", "Non-academic Author(s)",
     "Company Affiliation(s)", "Corresponding Author Email"}

\* C11: every record of either entry point has all of its fields, empty when
\* the article lacks the data; a record of _parse_pubmed_xml for an article
\* without PMID or ArticleTitle still has its pmid and title fields.
C11_AllFieldsPresent ==
    /\ ParseReturned =>
          \A i \in DOMAIN parse_outcome.value :
              ParsedFieldNames \subseteq DOMAIN parse_outcome.value[i]
    /\ ExtractReturned =>
          \A i \in DOMAIN extract_outcome.value :
              InfoFieldNames \subseteq DOMAIN extract_outcome.value[i]

\* C12: for every article of a well-formed document the two entry points
\* agree on the industry author names in order, on the set of industry
\* affiliations and on the corresponding email.
C12_EntryPointsAgree ==
    (ParseReturned /\ ExtractReturned) =>
        \A i \in DOMAIN parse_outcome.value :
            LET r == parse_outcome.value[i]
                e == extract_outcome.value[i]
            IN  /\ e["Non-academic Author(s)"] = Join("; ", r.industry_authors)
                /\ e["Company Affiliation(s)"] =
                       Join("; ", ListOfSet({r.industry_affiliations[k] :
                                               k \in DOMAIN r.industry_affiliations}))
                /\ e["Corresponding Author Email"] = r.corresponding_email

\* every Affiliation text of an article, authors in order, each author's
\* affiliations in order
RECURSIVE AffiliationTextsOf(_)
AffiliationTextsOf(authors) ==
    IF authors = <<>> THEN <<>>
    ELSE Head(authors).affiliations \o AffiliationTextsOf(Tail(authors))

AllAffiliationTexts(article) ==
    IF article.authorlist = <<>> THEN <<>>
    ELSE AffiliationTextsOf(article.authorlist[1])

RECURSIVE FirstEmailIn(_)
FirstEmailIn(texts) ==
    IF texts = <<>> THEN ""
    ELSE IF EmailSearch(Head(texts)) # "" THEN EmailSearch(Head(texts))
    ELSE FirstEmailIn(Tail(texts))

\* C13: the corresponding email of every record is the first email match
\* found scanning the article's affiliation texts in document order, and is
\* empty when no affiliation text has a match.
C13_FirstEmailInDocumentOrder ==
    /\ ParseReturned =>
          \A i \in DOMAIN parse_outcome.value :
              parse_outcome.value[i].corresponding_email
                  = FirstEmailIn(AllAffiliationTexts(ArticleAt(i)))
    /\ ExtractReturned =>
          \A i \in DOMAIN extract_outcome.value :
              extract_outcome.value[i]["Corresponding Author Email"]
                  = FirstEmailIn(AllAffiliationTexts(ArticleAt(i)))

NoDuplicates(xs) == \A i, j \in DOMAIN xs : i # j => xs[i] # xs[j]

\* how often k occurs in s
Occurrences(s, k) ==
    Cardinality({i \in 1..(Len(s) - Len(k) + 1) : SubSeq(s, i, i + Len(k) - 1) = k})

\* C14: the industry affiliations of a record hold each affiliation string
\* at most once, also when the string is listed for several authors or
\* several times for one author.
C14_AffiliationsOnce ==
    /\ ParseReturned =>
          \A i \in DOMAIN parse_outcome.value :
              NoDuplicates(parse_outcome.value[i].industry_affiliations)
    /\ ExtractReturned =>
          \A i \in DOMAIN extract_outcome.value :
              LET texts == AllAffiliationTexts(ArticleAt(i))
              IN  \A k \in DOMAIN texts :
                      texts[k] # "" =>
                          Occurrences(extract_outcome.value[i]["Company Affiliation(s)"],
                                      texts[k]) <= 1

C14_Witness ==
    /\ ParseReturned
    /\ ExtractReturned
    /\ Len(xml_data.articles) = 1
    /\ LET texts == AllAffiliationTexts(ArticleAt(1))
       IN  /\ Len(texts) = 3
           /\ texts[1] = texts[2]
           /\ texts[2] = texts[3]
           /\ parse_outcome.value[1].industry_affiliations = <<texts[1]>>
           /\ extract_outcome.value[1]["Company Affiliation(s)"] = texts[1]

Nameless(author) ==
    \/ author.fore = <<>> \/ author.fore = <<"">>
    \/ author.last = <<>> \/ author.last = <<"">>

IsNamed(author) == ~Nameless(author)

\* the article without its nameless author nodes
WithoutNameless(article) ==
    IF article.authorlist = <<>> THEN article
    ELSE [article EXCEPT !.authorlist = <<SelectSeq(article.authorlist[1], IsNamed)>>]

ExpectedAuthors(article) ==
    LET named == WithoutNameless(article).authorlist
    IN  IF named = <<>> THEN <<>>
        ELSE [k \in DOMAIN named[1] |-> named[1][k].fore[1] \o " " \o named[1][k].last[1]]

\* C15: an author node whose ForeName or LastName is missing or empty adds
\* nothing to the authors list or to the industry authors, whatever its
\* affiliations: both are what they are without the node.
C15_NamelessAuthorsSkipped ==
    /\ ParseReturned =>
          \A i \in DOMAIN parse_outcome.value :
              /\ parse_outcome.value[i].authors = ExpectedAuthors(ArticleAt(i))
              /\ parse_outcome.value[i].industry_authors
                     = PaperData(WithoutNameless(ArticleAt(i))).industry_authors
    /\ ExtractReturned =>
          \A i \in DOMAIN extract_outcome.value :
              extract_outcome.value[i]["Non-academic Author(s)"]
                  = PaperInfo(WithoutNameless(ArticleAt(i)))["Non-academic Author(s)"]

C15_Witness ==
    /\ ParseReturned
    /\ ExtractReturned
    /\ Len(xml_data.articles) = 1
    /\ ArticleAt(1).authorlist # <<>>
    /\ LET authors == ArticleAt(1).authorlist[1]
       IN  /\ Len(authors) = 2
           /\ authors[1].last = <<"">>
           /\ authors[1].affiliations = <<"Pfizer Inc., NY">>
           /\ authors[2].fore = <<>>
    /\ parse_outcome.value[1].authors = <<>>
    /\ parse_outcome.value[1].industry_authors = <<>>
    /\ extract_outcome.value[1]["Non-academic Author(s)"] = ""

ParseCalled == parse_outcome.kind # "none"

ExtractCalled == extract_outcome.kind # "none"

\* C16 as first stated: a document that is not well-formed XML makes either
\* entry point fail with PubMedParsingError.
C16_AlwaysParsingError ==
    ~xml_data.wellformed =>
        /\ ParseCalled => parse_outcome = Raise("PubMedParsingError")
        /\ ExtractCalled => extract_outcome = Raise("PubMedParsingError")

\* C16: a document that is not well-formed XML makes _parse_pubmed_xml fail
\* with PubMedParsingError and extract_paper_info fail with PubMedParsingError,
\* or with ValueError when the document is empty or only whitespace; no
\* records are returned.
C16_MalformedFails ==
    ~xml_data.wellformed =>
        /\ ParseCalled => parse_outcome = Raise("PubMedParsingError")
        /\ ExtractCalled =>
              extract_outcome = Raise(IF xml_data.blank THEN "ValueError"
                                      ELSE "PubMedParsingError")

C16_Witness ==
    /\ ~xml_data.wellformed
    /\ xml_data.blank
    /\ parse_outcome = Raise("PubMedParsingError")
    /\ extract_outcome = Raise("ValueError")

\* C17: for a well-formed document _parse_pubmed_xml returns one record per
\* article, in document order, whichever optional elements an article lacks.
C17_OneRecordPerArticle ==
    /\ (xml_data.wellformed /\ ParseCalled) =>
        /\ ParseReturned
        /\ Len(parse_outcome.value) = Len(xml_data.articles)
        /\ \A i \in DOMAIN parse_outcome.value :
              LET r == parse_outcome.value[i]
              IN  /\ r.abstract = ElemText(ArticleAt(i).abstract)
                  /\ r.doi = ElemText(ArticleAt(i).doi)
                  /\ r.journal = ElemText(ArticleAt(i).journal)
                  /\ "pmid" \in DOMAIN r => r.pmid = ElemText(ArticleAt(i).pmid)
    /\ (xml_data.wellformed /\ ExtractCalled) =>
          /\ ExtractReturned
          /\ Len(extract_outcome.value) = Len(xml_data.articles)
          /\ \A i \in DOMAIN extract_outcome.value :
                extract_outcome.value[i]["PubmedID"] = ElemText(ArticleAt(i).pmid)

C17_Witness ==
    /\ ParseReturned
    /\ Len(xml_data.articles) = 2
    /\ ArticleAt(1) = Article(BareHeader, NoElem)
    /\ ArticleAt(2).pmid = <<"12345">>
    /\ Len(parse_outcome.value) = 2
    /\ parse_outcome.value[1].abstract = ""
    /\ parse_outcome.value[2].abstract = "Text"

(***************************************************************************)
(* Further properties of the fetcher, under Spec.                          *)
(***************************************************************************)
\* C18 as first stated: search_papers_batch begins a page fetch only while
\* the number of records accumulated so far is below total_results, however
\* many records a page returns.
C18_AccumulatedBelowTotal ==
    (IsBatch /\ pc = "esearch") => Len(all_papers) < total_results

\* C18: search_papers_batch begins a page fetch only while the page's offset,
\* batch_size times the number of pages fetched so far, is below
\* total_results; the number of records accumulated so far is then below
\* total_results unless an earlier page returned more than batch_size records.
C18_OffsetBelowTotal ==
    (IsBatch /\ pc = "esearch") =>
        /\ start = batch_size * Len(batches)
        /\ start < total_results
        /\ (\A k \in DOMAIN batches : Len(batches[k]) <= batch_size)
               => Len(all_papers) < total_results

C18_Witness ==
    /\ IsBatch
    /\ pc = "esearch"
    /\ Len(batches) = 1
    /\ Len(batches[1]) = batch_size
    /\ start = batch_size
    /\ Len(all_papers) < total_results

IsSleep(e) == e.op = "sleep"

Pauses == Len(SelectSeq(log, IsSleep))

ReturnedNormally == entry = "fetch_papers" /\ pc = "done" /\ outcome.kind = "return"

\* C19 as first stated: every call of fetch_papers that returns normally has
\* paused exactly once, after the detail call and before returning.
C19_PauseOnEveryReturn ==
    ReturnedNormally =>
        /\ Pauses = 1
        /\ Len(log) >= 2
        /\ log[Len(log)].op = "sleep"
        /\ log[Len(log) - 1].op = "efetch"

\* C19: a call of fetch_papers that returns normally after a detail call has
\* paused exactly once, after the detail call and before returning; a call
\* that returns on an empty id list has made no detail call and has not
\* paused; no call pauses more than once.
C19_PauseOncePerDetailCall ==
    /\ \A i \in DOMAIN log :
           log[i].op = "sleep" =>
               /\ i >= 3
               /\ log[i - 1].op = "efetch" /\ log[i - 1].status = "ok"
               /\ log[i - 2].op = "esearch" /\ log[i - 2].status = "ok"
    /\ ReturnedNormally =>
           \/ /\ Len(log) = 3
              /\ log[1].op = "esearch"
              /\ log[2].op = "efetch" /\ log[2].status = "ok"
              /\ log[3].op = "sleep"
           \/ /\ Len(log) = 1
              /\ log[1].op = "esearch" /\ log[1].status = "ok"
              /\ log[1].ids = <<>>

C19_Witness ==
    /\ ReturnedNormally
    /\ Pauses = 1
    /\ Len(log) = 3
    /\ log[2].op = "efetch"
    /\ log[3].op = "sleep"
    /\ outcome.value # <<>>

====
